---- MODULE Spec2Model ----
(***************************************************************************)
(* Model of the gnss-rtk PVT solver: Candidate (src/src/candidate.rs) and  *)
(* Solver::resolve (src/src/solver.rs).                                    *)
(*                                                                         *)
(* Units.  Epochs and durations are integers counted in ticks, Second      *)
(* ticks to the second; distances are integers, SPEED_OF_LIGHT distance    *)
(* units per tick.  Every pseudo range of the model is a multiple of       *)
(* SPEED_OF_LIGHT, so the division of candidate.rs:91 is exact.            *)
(* Elevations are whole degrees, sunlight rates are percentages.           *)
(* Rust's 0-based Vec index i is the sequence index i + 1.                 *)
(***************************************************************************)
EXTENDS Integers, Sequences, FiniteSets, TLC

VARIABLES
    cfg,        \* Solver.cfg
    mode,       \* Solver.mode
    apriori,    \* Solver.apriori
    solution,   \* resolve argument: requested PVTSolutionType
    pool_in,    \* resolve argument: the caller's pool
    meas_tropo_components,  \* resolve argument: measured tropo components
    pc,         \* position inside resolve
    pool,       \* resolve local: the (shadowed) pool
    calls,      \* interpolator invocations so far: <<t_tx, sv, order, answer>>
    hist,       \* snapshots of the local pool between stages, loop visits
    rows,       \* sv of each row written to y / g, in row order
    raw,        \* what PVTSolution::new returned
    result,     \* outcome of resolve
    trace,      \* stages of resolve executed so far
    newArgs,    \* arguments of the last Candidate::new
    newResult,  \* its outcome
    txResult    \* outcome of the last Candidate::transmission_time

vars == <<cfg, mode, apriori, solution, meas_tropo_components, pool_in, pc, pool, calls, hist, rows,
          raw, result, trace, newArgs, newResult, txResult>>

solverVars == <<cfg, mode, apriori, solution, meas_tropo_components, pool_in, pc, pool, calls, hist,
                rows, raw, result, trace>>

candVars == <<newArgs, newResult, txResult>>

(***************************************************************************)
(* Bounds of the model                                                     *)
(***************************************************************************)
MaxPool == 4
MaxPR == 2

(***************************************************************************)
(* Option, Result, panic                                                   *)
(***************************************************************************)
None == [tag |-> "None"]

Some(x) == [tag |-> "Some", val |-> x]

is_some(o) == o.tag = "Some"

Ok(x) == [kind |-> "Ok", val |-> x]

Err(e) == [kind |-> "Err", err |-> e]

Panic(msg) == [kind |-> "Panic", msg |-> msg]

Pending == [kind |-> "Pending"]

Idle == [kind |-> "Idle"]

NotEnoughInputCandidates(s) == [name |-> "NotEnoughInputCandidates", solution |-> s]

NotEnoughFittingCandidates == [name |-> "NotEnoughFittingCandidates"]

MatrixInversionError == [name |-> "MatrixInversionError"]

NeedsAtLeastOnePseudoRange == [name |-> "NeedsAtLeastOnePseudoRange"]

TxImpossible == "resolved t_tx is physically impossible"

SubOverflow == "attempt to subtract with overflow"

IndexOutOfBounds == "index out of bounds"

UnwrapNone == "called Option::unwrap() on a None value"

(***************************************************************************)
(* Physical constants and input domains                                    *)
(***************************************************************************)
SPEED_OF_LIGHT == 3

Second == 4

PRValues == {0, 2 * SPEED_OF_LIGHT, Second * SPEED_OF_LIGHT}

Frequencies == {1575}

PseudoRanges == [value : PRValues, frequency : Frequencies]

ClockCorrs == {-2, 0, 2}

Epochs == {100}

Modelings == [sv_clock_bias : BOOLEAN, sv_total_group_delay : BOOLEAN]

RECURSIVE SeqsUpTo(_, _)
SeqsUpTo(S, n) ==
    IF n = 0 THEN {<<>>}
    ELSE LET shorter == SeqsUpTo(S, n - 1)
         IN shorter \cup {Append(s, x) : s \in {q \in shorter : Len(q) = n - 1}, x \in S}

(***************************************************************************)
(* candidate.rs                                                            *)
(***************************************************************************)

\* Candidate::new that keeps only the first pseudo range
Candidate_new_first_only(sv, t, clock_state, clock_corr, snr, pseudo_range) ==
    IF Len(pseudo_range) = 0
    THEN Err(NeedsAtLeastOnePseudoRange)
    ELSE Ok([sv |-> sv, t |-> t, clock_state |-> clock_state,
             clock_corr |-> clock_corr, snr |-> snr,
             pseudo_range |-> <<Head(pseudo_range)>>, tgd |-> None,
             state |-> None])

Candidate_new(sv, t, clock_state, clock_corr, snr, pseudo_range) ==
    IF Len(pseudo_range) = 0
    THEN Err(NeedsAtLeastOnePseudoRange)
    ELSE Ok([sv |-> sv, t |-> t, clock_state |-> clock_state,
             clock_corr |-> clock_corr, snr |-> snr,
             pseudo_range |-> pseudo_range, tgd |-> None, state |-> None])

\* iter().reduce(|k, _| k) folds to the first element; unwrap panics on None
RECURSIVE reduce_first(_, _)
reduce_first(acc, rest) ==
    IF Len(rest) = 0 THEN acc ELSE reduce_first(acc, Tail(rest))

Candidate_pseudo_range(c) ==
    IF Len(c.pseudo_range) = 0
    THEN Panic(UnwrapNone)
    ELSE Ok(reduce_first(Head(c.pseudo_range), Tail(c.pseudo_range)))

\* e_tx before the physical verification (candidate.rs:89-104)
Candidate_e_tx(c, modeling) ==
    LET seconds_ts == c.t
        dt_tx == seconds_ts - (Candidate_pseudo_range(c).val.value \div SPEED_OF_LIGHT)
        e0 == dt_tx
        e1 == IF modeling.sv_clock_bias THEN e0 - c.clock_corr ELSE e0
        e2 == IF modeling.sv_total_group_delay /\ is_some(c.tgd)
              THEN e1 - c.tgd.val ELSE e1
    IN e2

\* candidate.rs:88-111: the two assert! panic, every return is Ok
Candidate_transmission_time(c, modeling) ==
    LET e_tx == Candidate_e_tx(c, modeling)
        dt == c.t - e_tx
    IN IF ~(dt > 0) THEN Panic(TxImpossible)
       ELSE IF ~(dt < Second) THEN Panic(TxImpossible)
       ELSE Ok(e_tx)

(***************************************************************************)
(* solver.rs: inputs of the model                                          *)
(***************************************************************************)
\* usize::MAX, held at the largest integer TLC represents: all that matters
\* of a wrapped pool.len() - 1 is that it exceeds every pool length
usize_MAX == 2147483647

Vector3D_default == [x |-> 0, y |-> 0, z |-> 0]

Vector3D(x, y, z) == [x |-> x, y |-> y, z |-> z]

\* The answers the interpolator may give: None, or one of four sky states.
\* sky_pos is in metres; the elevations sit below, on and above the mask
\* of ElevMasks.
SkyStates ==
    { [sky_pos |-> Vector3D(1000, 0, 0), elevation |-> 10, azimuth |-> 0],
      [sky_pos |-> Vector3D(2000, 0, 0), elevation |-> 9, azimuth |-> 0],
      [sky_pos |-> Vector3D(3000, 0, 0), elevation |-> 11, azimuth |-> 0],
      [sky_pos |-> Vector3D(4000, 0, 0), elevation |-> 11, azimuth |-> 0] }

InterpAnswers == {None} \cup {Some(s) : s \in SkyStates}

ElevMasks == {None, Some(10)}

SunlightRates == {None, Some(50)}

FixedAltitudes == {None, Some(7)}

SolutionTypes == {"TimeOnly", "PositionVelocityTime"}

Configs ==
    [modeling : {[sv_clock_bias |-> TRUE, sv_total_group_delay |-> TRUE,
                  tropo_delay |-> TRUE]},
     interp_order : {11},
     min_sv_elev : ElevMasks,
     min_sv_sunlight_rate : SunlightRates,
     fixed_altitude : FixedAltitudes]

\* The configurations with tropospheric modeling on or off
TropoConfigs ==
    {[c EXCEPT !.modeling.tropo_delay = b] : c \in Configs, b \in BOOLEAN}

\* meas_tropo_components: not supplied, or one measurement
MeasTropoComponents == {None, Some([zwd |-> 1, zdd |-> 2])}

\* The candidate of satellite sv, as Candidate::new builds it
PoolCandidates(sv) ==
    {Candidate_new(sv, t, Vector3D_default, 0, None, <<pr>>).val :
        t \in Epochs, pr \in PseudoRanges}

RECURSIVE PoolsOfLen(_)
PoolsOfLen(n) ==
    IF n = 0 THEN {<<>>}
    ELSE {Append(p, c) : p \in PoolsOfLen(n - 1), c \in PoolCandidates(n)}

Pools == UNION {PoolsOfLen(n) : n \in 0 .. MaxPool}

\* What PVTSolution::new may hand back when it succeeds
RawSolutions ==
    { [p |-> Vector3D(3, 4, 5), v |-> Vector3D(1, 1, 1), hdop |-> 2, vdop |-> 2],
      [p |-> Vector3D(0, 0, 0), v |-> Vector3D(0, 0, 0), hdop |-> 0, vdop |-> 1] }

(***************************************************************************)
(* solver.rs: pure parts                                                   *)
(***************************************************************************)

\* min_required without the fixed-altitude reduction
min_required_no_reduction(sol, c) ==
    IF sol = "TimeOnly" THEN 1 ELSE 4

min_required(sol, c) ==
    IF sol = "TimeOnly" THEN 1
    ELSE IF is_some(c.fixed_altitude) THEN 4 - 1 ELSE 4

mode_compliant(m) == CASE m = "SPP" -> TRUE


\* elect_candidates that loses the last candidate of the pool
elect_candidates_drop_last(t, p, m, c) ==
    SubSeq(p, 1, Len(p) - 1)

elect_candidates(t, p, m, c) ==
    LET cloned == p
    IN SelectSeq(cloned, LAMBDA cd : mode_compliant(m))

\* usize subtraction: panics with overflow checks on, wraps without
usize_sub(a, b, overflow_checks) ==
    IF a >= b THEN Ok(a - b)
    ELSE IF overflow_checks THEN Panic(SubOverflow)
    ELSE Ok(((a - b) + usize_MAX) + 1)

\* Vec::swap_remove(idx): the last element takes the place of the removed one
swap_remove(p, idx) ==
    LET n == Len(p)
    IN [i \in 1 .. n - 1 |-> IF i = idx + 1 THEN p[n] ELSE p[i]]

LoopState(p, visited, panic) == [pool |-> p, visited |-> visited, panic |-> panic]

\* for idx in 0..end { ... } of solver.rs:249-259, from idx on
RECURSIVE elevation_loop(_, _, _, _, _)
elevation_loop(p, idx, end, min_elev, visited) ==
    IF idx >= end THEN LoopState(p, visited, None)
    ELSE IF idx >= Len(p) THEN LoopState(p, visited, Some(IndexOutOfBounds))
    ELSE LET c == p[idx + 1]
         IN IF is_some(c.state)
            THEN IF c.state.val.elevation < min_elev
                 THEN elevation_loop(swap_remove(p, idx), idx + 1, end, min_elev,
                                     Append(visited, c.sv))
                 ELSE elevation_loop(p, idx + 1, end, min_elev, Append(visited, c.sv))
            ELSE elevation_loop(p, idx + 1, end, min_elev, visited)

\* solver.rs:248-260
elevation_filter(p, min_sv_elev, overflow_checks) ==
    IF is_some(min_sv_elev)
    THEN LET end == usize_sub(Len(p), 1, overflow_checks)
         IN IF end.kind = "Panic" THEN LoopState(p, <<>>, Some(end.msg))
            ELSE elevation_loop(p, 0, end.val, min_sv_elev.val, <<>>)
    ELSE LoopState(p, <<>>, None)

\* Orbit of solver.rs:267-277: metres to kilometres, zero velocity
Orbit(state, epoch) ==
    [x_km |-> state.sky_pos.x \div 1000, y_km |-> state.sky_pos.y \div 1000,
     z_km |-> state.sky_pos.z \div 1000, epoch |-> epoch]

\* nyx_space::cosmic::eclipse::eclipse_state, the astrodynamics provider
eclipse_state(orbit) ==
    CASE orbit.x_km = 1 -> [kind |-> "Visibilis"]
      [] orbit.x_km = 2 -> [kind |-> "Penumbra", r |-> 50]
      [] orbit.x_km = 3 -> [kind |-> "Penumbra", r |-> 49]
      [] OTHER -> [kind |-> "Umbra"]

\* solver.rs:279-283
eclipsed(es, min_rate) ==
    CASE es.kind = "Umbra" -> TRUE
      [] es.kind = "Visibilis" -> FALSE
      [] es.kind = "Penumbra" -> es.r < min_rate

\* for idx in 0..end { ... } of solver.rs:264-291, from idx on
RECURSIVE eclipse_loop(_, _, _, _, _)
eclipse_loop(p, idx, end, min_rate, visited) ==
    IF idx >= end THEN LoopState(p, visited, None)
    ELSE IF idx >= Len(p) THEN LoopState(p, visited, Some(IndexOutOfBounds))
    ELSE LET c == p[idx + 1]
         IN IF ~is_some(c.state) THEN LoopState(p, visited, Some(UnwrapNone))
            ELSE IF eclipsed(eclipse_state(Orbit(c.state.val, c.t)), min_rate)
                 THEN eclipse_loop(swap_remove(p, idx), idx + 1, end, min_rate,
                                   Append(visited, c.sv))
                 ELSE eclipse_loop(p, idx + 1, end, min_rate, Append(visited, c.sv))

\* solver.rs:263-292
eclipse_filter(p, min_sv_sunlight_rate, overflow_checks) ==
    IF is_some(min_sv_sunlight_rate)
    THEN LET end == usize_sub(Len(p), 1, overflow_checks)
         IN IF end.kind = "Panic" THEN LoopState(p, <<>>, Some(end.msg))
            ELSE eclipse_loop(p, 0, end.val, min_sv_sunlight_rate.val, <<>>)
    ELSE LoopState(p, <<>>, None)


\* post_process that zeroes p.x alone instead of the whole position
post_process_x_only(s, sol, c, ap) ==
    LET s1 == IF is_some(c.fixed_altitude)
              THEN [s EXCEPT !.p.z = ap.ecef.z - c.fixed_altitude.val, !.v.z = 0]
              ELSE s
    IN IF sol = "TimeOnly"
       THEN [s1 EXCEPT !.p.x = 0, !.hdop = 0, !.vdop = 0]
       ELSE s1

\* solver.rs:401-415
post_process(s, sol, c, ap) ==
    LET s1 == IF is_some(c.fixed_altitude)
              THEN [s EXCEPT !.p.z = ap.ecef.z - c.fixed_altitude.val, !.v.z = 0]
              ELSE s
    IN IF sol = "TimeOnly"
       THEN LET s2 == [s1 EXCEPT !.p = Vector3D_default]
                s3 == [s2 EXCEPT !.p.x = 0]
                s4 == [s3 EXCEPT !.p.x = 0]
            IN [s4 EXCEPT !.hdop = 0, !.vdop = 0]
       ELSE s1

(***************************************************************************)
(* Solver::resolve, stage by stage                                         *)
(***************************************************************************)
NoHist == [elected |-> None, collected |-> <<>>, interpolated |-> None,
           afterElev |-> None, elevVisited |-> <<>>,
           afterEcl |-> None, eclVisited |-> <<>>]

Init ==
    /\ cfg \in Configs
    /\ mode = "SPP"
    /\ apriori = [ecef |-> Vector3D(0, 0, 9), geodetic |-> Vector3D(0, 0, 0)]
    /\ solution \in SolutionTypes
    /\ pool_in \in Pools
    /\ meas_tropo_components = None
    /\ pc = "start"
    /\ pool = pool_in
    /\ calls = <<>>
    /\ hist = NoHist
    /\ rows = None
    /\ raw = None
    /\ result = Pending
    /\ trace = {}
    /\ newArgs = Idle
    /\ newResult = Idle
    /\ txResult = Idle

Finish(r) ==
    /\ result' = r
    /\ pc' = "done"

\* solver.rs:187-191
CheckInput ==
    /\ pc = "start"
    /\ IF Len(pool) < min_required(solution, cfg)
       THEN Finish(Err(NotEnoughInputCandidates(solution)))
       ELSE pc' = "elect" /\ UNCHANGED result
    /\ UNCHANGED <<cfg, mode, apriori, solution, meas_tropo_components, pool_in, pool, calls, hist, rows,
                   raw, trace>>
    /\ UNCHANGED candVars

\* solver.rs:208
Elect ==
    /\ pc = "elect"
    /\ LET t == 100
           e == elect_candidates(t, pool, mode, cfg)
       IN /\ pool' = e
          /\ hist' = [hist EXCEPT !.elected = Some(e),
                                  !.interpolated =
                                      IF Len(e) = 0 THEN Some(<<>>) ELSE None]
    /\ trace' = trace \cup {"elect"}
    /\ pc' = IF Len(pool') = 0 THEN "elev" ELSE "interp"
    /\ UNCHANGED <<cfg, mode, apriori, solution, meas_tropo_components, pool_in, calls, rows, raw, result>>
    /\ UNCHANGED candVars


\* Interpolate that keeps a candidate whose interpolation failed
Interpolate_keep_failed ==
    /\ pc = "interp"
    /\ Len(calls) < Len(pool)
    /\ LET c == pool[Len(calls) + 1]
           tx == Candidate_transmission_time(c, cfg.modeling)
       IN IF tx.kind = "Panic"
          THEN /\ Finish(tx)
               /\ trace' = trace \cup {"tx"}
               /\ UNCHANGED <<pool, calls, hist>>
          ELSE \E answer \in InterpAnswers :
                LET kept == Append(hist.collected, [c EXCEPT !.state = answer])
                    last == Len(calls) + 1 = Len(pool)
                IN /\ calls' = Append(calls, [t |-> tx.val, sv |-> c.sv,
                                              order |-> cfg.interp_order,
                                              answer |-> answer])
                   /\ hist' = [hist EXCEPT !.collected = kept,
                                           !.interpolated =
                                               IF last THEN Some(kept) ELSE None]
                   /\ pool' = IF last THEN kept ELSE pool
                   /\ pc' = IF last THEN "elev" ELSE "interp"
                   /\ trace' = trace \cup {"tx", "interp"}
                   /\ UNCHANGED result
    /\ UNCHANGED <<cfg, mode, apriori, solution, meas_tropo_components, pool_in, rows, raw>>
    /\ UNCHANGED candVars

\* solver.rs:211-245: the closure of filter_map on the next candidate
Interpolate ==
    /\ pc = "interp"
    /\ Len(calls) < Len(pool)
    /\ LET c == pool[Len(calls) + 1]
           tx == Candidate_transmission_time(c, cfg.modeling)
       IN IF tx.kind = "Panic"
          THEN /\ Finish(tx)
               /\ trace' = trace \cup {"tx"}
               /\ UNCHANGED <<pool, calls, hist>>
          ELSE \E answer \in InterpAnswers :
                LET t_tx == tx.val
                    kept == IF is_some(answer)
                            THEN Append(hist.collected, [c EXCEPT !.state = answer])
                            ELSE hist.collected
                    last == Len(calls) + 1 = Len(pool)
                IN /\ calls' = Append(calls, [t |-> t_tx, sv |-> c.sv,
                                              order |-> cfg.interp_order,
                                              answer |-> answer])
                   /\ hist' = [hist EXCEPT !.collected = kept,
                                           !.interpolated =
                                               IF last THEN Some(kept) ELSE None]
                   /\ pool' = IF last THEN kept ELSE pool
                   /\ pc' = IF last THEN "elev" ELSE "interp"
                   /\ trace' = trace \cup {"tx", "interp"}
                   /\ UNCHANGED result
    /\ UNCHANGED <<cfg, mode, apriori, solution, meas_tropo_components, pool_in, rows, raw>>
    /\ UNCHANGED candVars

\* solver.rs:247-260
ElevationFilter ==
    /\ pc = "elev"
    /\ \E overflow_checks \in BOOLEAN :
        LET out == elevation_filter(pool, cfg.min_sv_elev, overflow_checks)
        IN /\ hist' = [hist EXCEPT !.elevVisited = out.visited,
                                   !.afterElev = Some(out.pool)]
           /\ pool' = out.pool
           /\ IF is_some(out.panic)
              THEN Finish(Panic(out.panic.val))
              ELSE pc' = "eclipse" /\ UNCHANGED result
    /\ trace' = trace \cup {"elev"}
    /\ UNCHANGED <<cfg, mode, apriori, solution, meas_tropo_components, pool_in, calls, rows, raw>>
    /\ UNCHANGED candVars

\* solver.rs:262-292
EclipseFilter ==
    /\ pc = "eclipse"
    /\ \E overflow_checks \in BOOLEAN :
        LET out == eclipse_filter(pool, cfg.min_sv_sunlight_rate, overflow_checks)
        IN /\ hist' = [hist EXCEPT !.eclVisited = out.visited,
                                   !.afterEcl = Some(out.pool)]
           /\ pool' = out.pool
           /\ IF is_some(out.panic)
              THEN Finish(Panic(out.panic.val))
              ELSE pc' = "check" /\ UNCHANGED result
    /\ trace' = trace \cup {"eclipse"}
    /\ UNCHANGED <<cfg, mode, apriori, solution, meas_tropo_components, pool_in, calls, rows, raw>>
    /\ UNCHANGED candVars

\* solver.rs:294-300
CheckFitting ==
    /\ pc = "check"
    /\ IF Len(pool) < min_required(solution, cfg)
       THEN Finish(Err(NotEnoughFittingCandidates))
       ELSE pc' = "build" /\ UNCHANGED result
    /\ UNCHANGED <<cfg, mode, apriori, solution, meas_tropo_components, pool_in, pool, calls, hist, rows,
                   raw, trace>>
    /\ UNCHANGED candVars

TropoComponents_default == [zwd |-> 0, zdd |-> 0]

\* tropo::unb3_delay_components(t, lat, alt): (zdd, zwd) of the UNB3 model
unb3_delay_components(t, lat_ddeg, altitude_above_sea_m) == [zdd |-> 4, zwd |-> 3]

\* tropo::tropo_delay(elevation, zwd, zdd): the slant delay, 0 for zero components
tropo_delay(elevation, zwd, zdd) == (zwd + zdd) * (20 - elevation)

PVTSVTimeDelay_default == [kind |-> "absent"]

PVTSVTimeDelay_measured(delay) == [kind |-> "measured", value |-> delay]

PVTSVTimeDelay_modeled(delay) == [kind |-> "modeled", value |-> delay]

PVTSVData_default == [tropo |-> PVTSVTimeDelay_default]

\* solver.rs:307-325
tropo_components(meas, modeling, t, ap) ==
    IF is_some(meas) THEN meas.val
    ELSE IF modeling.tropo_delay
         THEN LET u == unb3_delay_components(t, ap.geodetic.x, ap.geodetic.z)
              IN [zwd |-> u.zwd, zdd |-> u.zdd]
         ELSE TropoComponents_default

\* solver.rs:336-352: sv_data of one candidate
sv_data_of(c, meas, components) ==
    LET delay == tropo_delay(c.state.val.elevation, components.zwd, components.zdd)
    IN IF is_some(meas)
       THEN [PVTSVData_default EXCEPT !.tropo = PVTSVTimeDelay_measured(delay)]
       ELSE [PVTSVData_default EXCEPT !.tropo = PVTSVTimeDelay_modeled(delay)]

\* One row of y / g per candidate (solver.rs:327-390), each with the sv_data
\* inserted into pvt_sv_data under its sv; Panic when an unwrap fails
build_rows(p, meas, modeling, t, ap) ==
    IF \E i \in 1 .. Len(p) : Candidate_pseudo_range(p[i]).kind = "Panic"
                              \/ ~is_some(p[i].state)
    THEN Panic(UnwrapNone)
    ELSE LET components == tropo_components(meas, modeling, t, ap)
         IN Ok([i \in 1 .. Len(p) |->
                [sv |-> p[i].sv, elevation |-> p[i].state.val.elevation,
                 pr |-> Candidate_pseudo_range(p[i]).val.value,
                 sv_data |-> sv_data_of(p[i], meas, components)]])

\* solver.rs:302-390
BuildModel ==
    /\ pc = "build"
    /\ LET out == build_rows(pool, meas_tropo_components, cfg.modeling, 100, apriori)
       IN IF out.kind = "Panic"
          THEN Finish(out) /\ UNCHANGED rows
          ELSE rows' = Some(out.val) /\ pc' = "solve" /\ UNCHANGED result
    /\ trace' = trace \cup {"build"}
    /\ UNCHANGED <<cfg, mode, apriori, solution, meas_tropo_components, pool_in, pool, calls, hist, raw>>
    /\ UNCHANGED candVars

\* PVTSolution::new(g, y, pvt_sv_data): a solution or MatrixInversionError
PVTSolution_new == {Err(MatrixInversionError)} \cup {Ok(s) : s \in RawSolutions}

\* solver.rs:395
Solve ==
    /\ pc = "solve"
    /\ \E out \in PVTSolution_new :
        /\ raw' = Some(out)
        /\ IF out.kind = "Err"
           THEN Finish(out)
           ELSE pc' = "post" /\ UNCHANGED result
    /\ trace' = trace \cup {"solve"}
    /\ UNCHANGED <<cfg, mode, apriori, solution, meas_tropo_components, pool_in, pool, calls, hist, rows>>
    /\ UNCHANGED candVars

\* solver.rs:397-417
PostProcess ==
    /\ pc = "post"
    /\ Finish(Ok([t |-> 100,
                  pvt |-> post_process(raw.val.val, solution, cfg, apriori)]))
    /\ trace' = trace \cup {"post"}
    /\ UNCHANGED <<cfg, mode, apriori, solution, meas_tropo_components, pool_in, pool, calls, hist, rows, raw>>
    /\ UNCHANGED candVars

Next ==
    \/ CheckInput
    \/ Elect
    \/ Interpolate
    \/ ElevationFilter
    \/ EclipseFilter
    \/ CheckFitting
    \/ BuildModel
    \/ Solve
    \/ PostProcess

Spec == Init /\ [][Next]_vars

(***************************************************************************)
(* Candidate specification: construction, then transmission time           *)
(***************************************************************************)
SolverIdle ==
    /\ cfg = [modeling |-> [sv_clock_bias |-> FALSE, sv_total_group_delay |-> FALSE]]
    /\ mode = "SPP"
    /\ apriori = [ecef |-> [x |-> 0, y |-> 0, z |-> 0]]
    /\ solution = "TimeOnly"
    /\ pool_in = <<>>
    /\ meas_tropo_components = None
    /\ pc = "idle"
    /\ pool = <<>>
    /\ calls = <<>>
    /\ hist = NoHist
    /\ rows = None
    /\ raw = None
    /\ result = Pending
    /\ trace = {}

InitCandidate ==
    /\ SolverIdle
    /\ newArgs = Idle
    /\ newResult = Idle
    /\ txResult = Idle

New ==
    \E sv \in 1 .. 2, t \in Epochs, cc \in ClockCorrs,
       prs \in SeqsUpTo(PseudoRanges, MaxPR) :
        /\ newArgs' = [sv |-> sv, t |-> t, clock_corr |-> cc, snr |-> None,
                       pseudo_range |-> prs]
        /\ newResult' = Candidate_new(sv, t, [x |-> 0, y |-> 0, z |-> 0], cc, None, prs)
        /\ txResult' = Idle
        /\ UNCHANGED solverVars

TransmissionTime ==
    /\ newResult.kind = "Ok"
    /\ \E m \in Modelings :
        txResult' = [modeling |-> m,
                     out |-> Candidate_transmission_time(newResult.val, m)]
    /\ UNCHANGED <<newArgs, newResult>>
    /\ UNCHANGED solverVars

NextCandidate == New \/ TransmissionTime

SpecCandidate == InitCandidate /\ [][NextCandidate]_vars

\* resolve over every tropospheric input: components measured or not,
\* modeling on or off
InitTropo ==
    /\ cfg \in TropoConfigs
    /\ mode = "SPP"
    /\ apriori = [ecef |-> Vector3D(0, 0, 9), geodetic |-> Vector3D(0, 0, 0)]
    /\ solution \in SolutionTypes
    /\ pool_in \in Pools
    /\ meas_tropo_components \in MeasTropoComponents
    /\ pc = "start"
    /\ pool = pool_in
    /\ calls = <<>>
    /\ hist = NoHist
    /\ rows = None
    /\ raw = None
    /\ result = Pending
    /\ trace = {}
    /\ newArgs = Idle
    /\ newResult = Idle
    /\ txResult = Idle

SpecTropo == InitTropo /\ [][Next]_vars

\* A call of Solver::elect_candidates on its own (it is a public function)
InitElect ==
    /\ cfg \in Configs
    /\ mode = "SPP"
    /\ apriori = [ecef |-> Vector3D(0, 0, 9), geodetic |-> Vector3D(0, 0, 0)]
    /\ solution \in SolutionTypes
    /\ pool_in \in Pools
    /\ meas_tropo_components = None
    /\ pc = "elect"
    /\ pool = pool_in
    /\ calls = <<>>
    /\ hist = NoHist
    /\ rows = None
    /\ raw = None
    /\ result = Pending
    /\ trace = {}
    /\ newArgs = Idle
    /\ newResult = Idle
    /\ txResult = Idle

NextElect == Elect

SpecElect == InitElect /\ [][NextElect]_vars

(***************************************************************************)
(* Helpers of the properties                                               *)
(***************************************************************************)
Range(f) == {f[i] : i \in DOMAIN f}

SvsOf(p) == [i \in DOMAIN p |-> p[i].sv]

\* Each element of S occurs exactly once in the sequence q, and nothing else
ExactlyOnceEach(q, S) ==
    /\ Range(q) = S
    /\ Len(q) = Cardinality(S)

FilterPanicked(stage, next) ==
    /\ result.kind = "Panic"
    /\ stage \in trace
    /\ next \notin trace

AboveMask(c) == ~(c.state.val.elevation < cfg.min_sv_elev.val)

Sunlit(c) ==
    LET es == eclipse_state(Orbit(c.state.val, c.t))
    IN \/ es.kind = "Visibilis"
       \/ es.kind = "Penumbra" /\ es.r >= cfg.min_sv_sunlight_rate.val

\* dt of candidate.rs:107 for a constructed candidate, written out
ElapsedTime(c, modeling) ==
    (Head(c.pseudo_range).value \div SPEED_OF_LIGHT)
        + (IF modeling.sv_clock_bias THEN c.clock_corr ELSE 0)
        + (IF modeling.sv_total_group_delay /\ is_some(c.tgd) THEN c.tgd.val ELSE 0)

Plausible(c, modeling) ==
    /\ ElapsedTime(c, modeling) > 0
    /\ ElapsedTime(c, modeling) < Second

(***************************************************************************)
(* Properties                                                              *)
(***************************************************************************)

\* C1: once the elevation-filter pass has run under a configured mask, it has
\* not panicked, the pool it leaves is the interpolated pool without the
\* candidates whose elevation is below the mask, and every candidate of the
\* interpolated pool was evaluated exactly once.
C1_ElevationFilterExhaustive ==
    (is_some(cfg.min_sv_elev) /\ "elev" \in trace) =>
        /\ ~FilterPanicked("elev", "eclipse")
        /\ Range(hist.afterElev.val)
               = {c \in Range(hist.interpolated.val) : AboveMask(c)}
        /\ ExactlyOnceEach(hist.elevVisited, Range(SvsOf(hist.interpolated.val)))

\* C2: when every candidate of the pool has a plausible transmission time,
\* resolve never panics: it is still running, or it returned Ok or Err.
C2_NoPanicOutsideTransmissionTime ==
    (\A i \in DOMAIN pool_in : Plausible(pool_in[i], cfg.modeling)) =>
        result.kind # "Panic"

\* C3: with a pool smaller than the minimum required (1 for time-only, 4
\* otherwise, 3 with a fixed altitude) resolve does nothing but return
\* NotEnoughInputCandidates(solution): no election, transmission time,
\* interpolator call, filter or model building happens; with a pool of at
\* least that size this error is never returned.
C3_InputPrecondition ==
    LET minimum == IF solution = "TimeOnly" THEN 1
                   ELSE IF is_some(cfg.fixed_altitude) THEN 3 ELSE 4
    IN IF Len(pool_in) < minimum
       THEN /\ pc \in {"start", "done"}
            /\ pc = "done" => result = Err(NotEnoughInputCandidates(solution))
            /\ trace = {}
            /\ calls = <<>>
            /\ hist = NoHist
            /\ rows = None
            /\ raw = None
       ELSE result # Err(NotEnoughInputCandidates(solution))

C3_Witness ==
    /\ pc = "done"
    /\ solution = "PositionVelocityTime"
    /\ Len(pool_in) = 3
    /\ cfg.fixed_altitude = None
    /\ result = Err(NotEnoughInputCandidates("PositionVelocityTime"))

\* C4: with an elevation mask and no sunlight mask, when some interpolated
\* candidate is below the mask, resolve ends with one matrix row per
\* candidate at or above the mask and none for the others if those number at
\* least the minimum required, and with NotEnoughFittingCandidates if not.
C4_BelowMaskExcluded ==
    (/\ pc = "done"
     /\ is_some(cfg.min_sv_elev)
     /\ cfg.min_sv_sunlight_rate = None
     /\ is_some(hist.interpolated)
     /\ \E c \in Range(hist.interpolated.val) : ~AboveMask(c)) =>
        LET fit == SelectSeq(hist.interpolated.val, AboveMask)
        IN IF Len(fit) >= min_required(solution, cfg)
           THEN /\ is_some(rows)
                /\ ExactlyOnceEach([i \in DOMAIN rows.val |-> rows.val[i].sv],
                                   Range(SvsOf(fit)))
           ELSE result = Err(NotEnoughFittingCandidates)

\* C5: whenever the elapsed time between the sampling epoch and the computed
\* transmission epoch is not strictly between 0 and 1 second,
\* transmission_time returns an Err value.
C5_ImplausibleIsAnError ==
    (txResult # Idle /\ ~Plausible(newResult.val, txResult.modeling)) =>
        txResult.out.kind = "Err"

\* C6: a successful time-only resolve returns a zero position vector and
\* zero hdop and vdop.
C6_TimeOnlyZeroed ==
    (result.kind = "Ok" /\ solution = "TimeOnly") =>
        /\ result.val.pvt.p = [x |-> 0, y |-> 0, z |-> 0]
        /\ result.val.pvt.hdop = 0
        /\ result.val.pvt.vdop = 0

C6_Witness ==
    /\ result.kind = "Ok"
    /\ solution = "TimeOnly"
    /\ is_some(cfg.fixed_altitude)
    /\ raw.val.val.p.y # 0
    /\ raw.val.val.hdop # 0
    /\ Len(rows.val) >= 2

\* C7: Candidate::new returns NeedsAtLeastOnePseudoRange exactly when the
\* pseudo range list is empty; otherwise it returns a candidate that holds
\* the given pseudo ranges in order (at least one, so pseudo_range() does not
\* panic), with no resolved state and no group delay.
C7_CandidateNew ==
    newResult # Idle =>
        IF Len(newArgs.pseudo_range) = 0
        THEN newResult = Err(NeedsAtLeastOnePseudoRange)
        ELSE /\ newResult.kind = "Ok"
             /\ newResult.val.pseudo_range = newArgs.pseudo_range
             /\ Len(newResult.val.pseudo_range) >= 1
             /\ Candidate_pseudo_range(newResult.val).kind = "Ok"
             /\ newResult.val.state = None
             /\ newResult.val.tgd = None

C7_Witness ==
    /\ newResult.kind = "Ok"
    /\ Len(newResult.val.pseudo_range) = 2
    /\ newResult.val.pseudo_range[1] # newResult.val.pseudo_range[2]

\* C8: in SPP mode elect_candidates returns every candidate of the input
\* pool, in the same order and number, and the input pool is not modified.
C8_ElectKeepsAll ==
    /\ [](is_some(hist.elected) =>
            /\ hist.elected.val = pool_in
            /\ Len(hist.elected.val) = Len(pool_in)
            /\ pool = hist.elected.val)
    /\ [][pool_in' = pool_in]_vars

C8_Witness ==
    /\ is_some(hist.elected)
    /\ Len(pool_in) >= 2
    /\ pool_in[1] # pool_in[2]

\* C9: once the eclipse-filter pass has run under a configured minimum
\* sunlight rate, it has not panicked, the pool it leaves holds exactly the
\* candidates of its input pool that are fully illuminated or in penumbra
\* with a fraction at or above the minimum, and every candidate of its input
\* pool was evaluated exactly once.
C9_EclipseFilterExhaustive ==
    (is_some(cfg.min_sv_sunlight_rate) /\ "eclipse" \in trace) =>
        /\ ~FilterPanicked("eclipse", "build")
        /\ Range(hist.afterEcl.val)
               = {c \in Range(hist.afterElev.val) : Sunlit(c)}
        /\ ExactlyOnceEach(hist.eclVisited, Range(SvsOf(hist.afterElev.val)))

\* The pool filter_map builds from the first k elected candidates and the
\* answers the interpolator gave for them
RECURSIVE KeptOf(_, _, _)
KeptOf(elected, answers, k) ==
    IF k = 0 THEN <<>>
    ELSE LET before == KeptOf(elected, answers, k - 1)
         IN IF is_some(answers[k].answer)
            THEN Append(before, [elected[k] EXCEPT !.state = answers[k].answer])
            ELSE before

\* C10: the interpolator is called once per elected candidate, in order, with
\* (the candidate's transmission time, its satellite, the configured order);
\* the stage keeps, in order, exactly the candidates that got an answer, each
\* with that answer as its state, and drops the others without ending
\* resolve; every candidate of the pool the filters and the model builder
\* work on has a state.
C10_InterpolationStage ==
    /\ is_some(hist.elected) =>
        /\ Len(calls) <= Len(hist.elected.val)
        /\ \A i \in DOMAIN calls :
            LET c == hist.elected.val[i]
            IN /\ calls[i].sv = c.sv
               /\ Candidate_transmission_time(c, cfg.modeling) = Ok(calls[i].t)
               /\ calls[i].order = cfg.interp_order
        /\ hist.collected = KeptOf(hist.elected.val, calls, Len(calls))
        /\ (Len(calls) = Len(hist.elected.val)) =>
              /\ hist.interpolated = Some(hist.collected)
              /\ "elev" \notin trace => (pc = "elev" /\ pool = hist.collected
                                         /\ result = Pending)
    /\ calls = <<>> \/ is_some(hist.elected)
    /\ pc \in {"elev", "eclipse", "check", "build", "solve", "post"} =>
          \A i \in DOMAIN pool : is_some(pool[i].state)
    /\ is_some(rows) => \A i \in DOMAIN pool : is_some(pool[i].state)

C10_Witness ==
    /\ pc = "build"
    /\ Len(hist.elected.val) = 4
    /\ Len(hist.interpolated.val) = 2
    /\ calls[1].answer = None
    /\ calls[3].answer = None
    /\ is_some(calls[4].answer)

\* C11: for every candidate the model builder wrote a row for, the tropo
\* entry of its sv_data is measured when tropo components were supplied,
\* modeled when none were supplied and tropo modeling is enabled, and absent
\* when none were supplied and tropo modeling is disabled.
C11_TropoClassification ==
    is_some(rows) =>
        \A i \in DOMAIN rows.val :
            rows.val[i].sv_data.tropo.kind =
                IF is_some(meas_tropo_components) THEN "measured"
                ELSE IF cfg.modeling.tropo_delay THEN "modeled"
                ELSE "absent"

====
